---------------------------- MODULE Spec2Model ----------------------------
(***************************************************************************)
(* pywebhdfs, tornado client (pywebhdfs/tornado/webhdfs.py).               *)
(*                                                                         *)
(* One PyWebHdfsClient object, on which the application starts calls of    *)
(* the public operations.  Every operation is a tornado coroutine: it runs *)
(* from its start to its first `yield self.http_client.fetch(request)`,    *)
(* is suspended while the transport works, and is resumed with the         *)
(* outcome of the fetch.  The two-phase operations (create_file and        *)
(* append_file) yield twice.  Calls are interleaved at their yields.       *)
(*                                                                         *)
(* The transport (tornado's AsyncHTTPClient) and the ticket provider       *)
(* (krb_instance) are the environment: the transport answers a request     *)
(* with any status, or fails; the provider returns a new ticket, or        *)
(* raises.                                                                 *)
(***************************************************************************)
EXTENDS Integers, Sequences, FiniteSets, TLC

(***************************************************************************)
(* Bounds of the model.                                                    *)
(***************************************************************************)
\* number of calls the application starts on the client
MaxCalls == 1
\* number of redirects the transport follows within one fetch
MaxHops == 1
\* number of optional arguments given to _create_uri when it is applied alone
MaxKwargs == 2
\* number of calls in flight at once on one client
MaxConcurrent == 2
\* minutes a ticket-granting ticket is good for when kinit has written it
MaxMinutes == 6
\* number of tickets acquire_kerberos_ticket is asked for directly
MaxAcquires == 2

CallIds == 1 .. MaxCalls

(***************************************************************************)
(* httplib's status codes, as the client names them.                       *)
(***************************************************************************)
OK == 200
CREATED == 201
TEMPORARY_REDIRECT == 307
BAD_REQUEST == 400
UNAUTHORIZED == 401
NOT_FOUND == 404
METHOD_NOT_ALLOWED == 405

\* the statuses the servers of the model answer with; 500 stands for every
\* status the client has no name for
Statuses == {OK, CREATED, TEMPORARY_REDIRECT, BAD_REQUEST, UNAUTHORIZED,
             NOT_FOUND, METHOD_NOT_ALLOWED, 500}

(***************************************************************************)
(* The operations of the client.                                           *)
(***************************************************************************)
TwoPhaseOps == {"create_file", "append_file"}
JsonOps == {"get_file_dir_status", "list_dir", "get_acl_status"}
SinglePhaseOps == {"read_file", "make_dir", "rename_file_dir",
                   "delete_file_dir", "set_owner"} \cup JsonOps
Ops == TwoPhaseOps \cup SinglePhaseOps

\* pywebhdfs.operations: the value of the op query parameter
Operation(op) ==
    CASE op = "create_file" -> "CREATE"
      [] op = "append_file" -> "APPEND"
      [] op = "read_file" -> "OPEN"
      [] op = "make_dir" -> "MKDIRS"
      [] op = "rename_file_dir" -> "RENAME"
      [] op = "delete_file_dir" -> "DELETE"
      [] op = "get_file_dir_status" -> "GETFILESTATUS"
      [] op = "list_dir" -> "LISTSTATUS"
      [] op = "set_owner" -> "SETOWNER"
      [] op = "get_acl_status" -> "GETACLSTATUS"

\* the method= argument of the operation's HTTPRequest (GET when not given)
Method(op) ==
    CASE op = "create_file" -> "PUT"
      [] op = "append_file" -> "POST"
      [] op \in {"make_dir", "rename_file_dir", "set_owner"} -> "PUT"
      [] op = "delete_file_dir" -> "DELETE"
      [] OTHER -> "GET"

\* the follow_redirects= argument of the operation's first HTTPRequest
FollowRedirects(op) == op \notin TwoPhaseOps

Absent == <<"absent">>
EmptyBody == <<"">>

\* the body= argument of the operation's first HTTPRequest
FirstBody(op) ==
    IF op \in TwoPhaseOps \cup {"make_dir", "rename_file_dir"}
    THEN EmptyBody ELSE Absent

(***************************************************************************)
(* The data of the model.                                                  *)
(***************************************************************************)
\* the file_data argument of create_file and append_file
FileData == {<<"data1">>, <<"data2">>}
\* the location header of a redirect
Locations == {<<"http://datanode1:50075/webhdfs/v1/f">>,
              <<"http://datanode2:50075/webhdfs/v1/f">>}
NoLocation == <<>>
\* the locations a redirect that the transport follows by itself names
HopLocations == {<<"http://datanode3:50075/webhdfs/v1/f">>}
base_uri == "http://localhost:50070/webhdfs/v1/"
Path == "user/hdfs/f"
\* the n-th ticket the provider issues
Ticket(n) == <<"Negotiate", n>>
\* the body of the response to the n-th fetch of call c
BodyOf(c, n) == <<"body", c, n>>
NoMsg == <<>>

(***************************************************************************)
(* Python values and strings.  A string that the client converts is a      *)
(* sequence of characters; a URI is a sequence of pieces, each of them a   *)
(* literal of the format strings, an argument put in as it is, or one      *)
(* character of a converted value.                                         *)
(***************************************************************************)
UpperLetters == <<"A", "B", "C", "D", "E", "F", "G", "H", "I", "J", "K", "L", "M",
                  "N", "O", "P", "Q", "R", "S", "T", "U", "V", "W", "X", "Y", "Z">>
LowerLetters == <<"a", "b", "c", "d", "e", "f", "g", "h", "i", "j", "k", "l", "m",
                  "n", "o", "p", "q", "r", "s", "t", "u", "v", "w", "x", "y", "z">>

\* s.lower()
lower(s) ==
    [i \in DOMAIN s |->
        IF \E k \in DOMAIN UpperLetters : UpperLetters[k] = s[i]
        THEN LowerLetters[CHOOSE k \in DOMAIN UpperLetters : UpperLetters[k] = s[i]]
        ELSE s[i]]

\* the values of keyword arguments: booleans and strings (a number is given
\* by its digits)
Bool(b) == [type |-> "bool", b |-> b, s |-> <<>>]
Text(s) == [type |-> "str", b |-> FALSE, s |-> s]

\* str(value)
str(value) ==
    IF value.type = "bool"
    THEN IF value.b THEN <<"T", "r", "u", "e">> ELSE <<"F", "a", "l", "s", "e">>
    ELSE value.s

Arg(key, value) == [key |-> key, value |-> value]

\* the user_name of the client: None, or a name
NoUser == <<>>
UserNames == {<<"hduser">>}

\* PyWebHdfsClient(host, port, user_name): the fields __init__ sets
NewClient(user_name) ==
    [host |-> "localhost", port |-> "50070", user_name |-> user_name,
     krb_primary |-> "HTTP", base_uri |-> base_uri,
     request_options |-> [connect_timeout |-> "None", request_timeout |-> "None",
                          ca_certs |-> "/etc/ssl/certs/ca-certificates.crt"]]

\* keyword_params without .lower()
RECURSIVE keyword_params_as_given(_)
keyword_params_as_given(kwargs) ==
    IF kwargs = <<>> THEN <<>>
    ELSE <<"&", Head(kwargs).key, "=">> \o str(Head(kwargs).value)
            \o keyword_params_as_given(Tail(kwargs))

\* for key in kwargs: keyword_params = '{params}&{key}={value}'.format(...,
\*     value=str(kwargs[key]).lower()); kwargs in the order of the iteration
RECURSIVE keyword_params(_)
keyword_params(kwargs) ==
    IF kwargs = <<>> THEN <<>>
    ELSE <<"&", Head(kwargs).key, "=">> \o lower(str(Head(kwargs).value))
            \o keyword_params(Tail(kwargs))

\* auth_param without the check of self.user_name
auth_param_always(user_name) == <<"&user.name=">> \o user_name

\* auth_param = str(); if self.user_name: auth_param = '&user.name={user_name}'
auth_param(user_name) ==
    IF user_name # NoUser THEN <<"&user.name=">> \o user_name ELSE <<>>

\* _create_uri(self, path, operation, **kwargs) of a client self
create_uri(self, path, operation, kwargs) ==
    <<self.base_uri, path>> \o <<"?op=", operation>>
        \o keyword_params(kwargs) \o auth_param(self.user_name)

\* the destination_path argument of rename_file_dir
Destinations == {<<"/", "u", "s", "e", "r", "/", "d">>,
                 <<"/", "U", "s", "e", "r", "/", "D">>}
\* the recursive argument of delete_file_dir: False when not given, True, 'true'
Recursives == {Bool(FALSE), Bool(TRUE), Text(<<"t", "r", "u", "e">>)}
Owner == Text(<<"h", "d", "f", "s">>)
Group == Text(<<"s", "u", "p", "e", "r">>)

\* the keyword arguments an operation passes to _create_uri when its caller
\* gives no optional argument, in the orders the dict may be iterated in
OperationKwargs(op) ==
    IF op = "rename_file_dir"
    THEN {<<Arg("destination", Text(d))>> : d \in Destinations}
    ELSE IF op = "delete_file_dir"
    THEN {<<Arg("recursive", r)>> : r \in Recursives}
    ELSE IF op = "set_owner"
    THEN {<<Arg("owner", Owner), Arg("group", Group)>>,
          <<Arg("group", Group), Arg("owner", Owner)>>}
    ELSE {<<>>}

(***************************************************************************)
(* The transport.  A server answers with a status; tornado's fetch returns *)
(* the response when the status is 2xx and raises an HTTPError carrying    *)
(* the response otherwise (the "temporary redirect exception" create_file  *)
(* expects).  A fetch may also fail with no response at all: an HTTPError  *)
(* of status 599 whose response is None (a timeout), or an exception that  *)
(* is no HTTPError (a socket error).                                       *)
(***************************************************************************)
Delivery(code) == IF code \in 200 .. 299 THEN "returned" ELSE "http_error"

Response(code, location, body) ==
    [kind |-> Delivery(code), code |-> code, location |-> location, body |-> body]

NoResponse(kind) ==
    [kind |-> kind, code |-> 599, location |-> NoLocation, body |-> NoMsg]

\* what the n-th fetch of call c can end with; a redirect names a location,
\* and so may a 201
Outcomes(c, n) ==
    {Response(s, NoLocation, BodyOf(c, n)) : s \in Statuses}
    \cup {Response(s, l, BodyOf(c, n)) :
             s \in {TEMPORARY_REDIRECT, CREATED}, l \in Locations}
    \cup {NoResponse("http_error_no_response"), NoResponse("exception")}

\* a response the transport follows by itself when follow_redirects is set
IsFollowed(o) == o.code = TEMPORARY_REDIRECT /\ o.location # NoLocation

(***************************************************************************)
(* The ticket provider: krb_instance.acquire_kerberos_ticket(...) returns  *)
(* a new Authorization value or raises.                                    *)
(***************************************************************************)
Acquisitions(n) ==
    {[raised |-> FALSE, value |-> Ticket(n), error |-> "none"],
     [raised |-> TRUE, value |-> Absent, error |-> "TicketAcquisitionFailure"]}

(***************************************************************************)
(* KerberosContextManager.  The default credential cache holds a           *)
(* ticket-granting ticket with some minutes left, or none.                 *)
(***************************************************************************)
NoTgt == [present |-> FALSE, remaining |-> 0]
Tgt(m) == [present |-> TRUE, remaining |-> m]
Ccaches == {NoTgt} \cup {Tgt(m) : m \in 0 .. MaxMinutes}

\* timedelta(minutes=5)
RefreshMargin == 5

\* _are_credential_times_expired that takes a TGT with exactly the margin
\* left as expired too
are_credential_times_expired_at_margin(remaining) == remaining <= RefreshMargin

\* time_remaining < timedelta(minutes=5)
are_credential_times_expired(remaining) == remaining < RefreshMargin

\* try: the lookup, and _are_credential_times_expired of the times it finds;
\* except krbV.Krb5Error: return True
is_kerberos_ccache_refresh_required(cc) ==
    IF ~cc.present THEN TRUE ELSE are_credential_times_expired(cc.remaining)

\* how the kinit subprocess ends: with exit status 0, with another exit
\* status, or Popen raises OSError because it cannot be started
KinitOutcomes == {"exit_0", "exit_nonzero", "os_error"}

NoRefresh ==
    [lookup |-> NoTgt, required |-> FALSE, kinit |-> "not_called",
     ok |-> TRUE, msg |-> <<>>]

\* refresh_kerberos_ccache on the cache cc with a kinit that ends as given:
\* the cache afterwards and what is returned
refresh(cc, kinit) ==
    IF is_kerberos_ccache_refresh_required(cc)
    THEN [ccache |-> IF kinit = "exit_0" THEN Tgt(MaxMinutes) ELSE cc,
          report |-> [lookup |-> cc, required |-> TRUE, kinit |-> kinit,
                      ok |-> ~(kinit = "os_error"),
                      msg |-> IF kinit = "os_error" THEN <<"strerror">> ELSE <<"">>]]
    ELSE [ccache |-> cc,
          report |-> [lookup |-> cc, required |-> FALSE, kinit |-> "not_run",
                      ok |-> TRUE, msg |-> <<"">>]]

\* the GSS calls with the cache cc: a service ticket, or kerberos.GSSError;
\* without a ticket-granting ticket that is still good, only the error
GssOutcomes(cc) ==
    IF cc.present /\ cc.remaining > 0 THEN {"ticket", "GSSError"} ELSE {"GSSError"}

NoAcquire == [steps |-> <<>>, service |-> <<>>, result |-> <<"none">>]

\* the arguments the client calls acquire_kerberos_ticket with, and the
\* parameters the method of KerberosContextManager has besides self
ClientArguments == <<"krb_primary", "host">>
ManagerParameters == <<>>

\* self.krb_instance.acquire_kerberos_ticket(self.krb_primary, self.host) on
\* a KerberosContextManager: a call with other arguments than the parameters
\* raises TypeError before the method runs
ManagerAcquisitions(n) ==
    IF Len(ClientArguments) # Len(ManagerParameters)
    THEN {[raised |-> TRUE, value |-> Absent, error |-> "TypeError"]}
    ELSE Acquisitions(n)

(***************************************************************************)
(* The state.                                                              *)
(***************************************************************************)
VARIABLES
    krb_instance,   \* whether the client was constructed with a krb_instance
    tickets,        \* number of tickets the provider has issued
    calls,          \* the calls of the application, by id
    client,         \* the other fields of the client object
    built,          \* the last URI built by _create_uri applied alone
    ccache,         \* the default credential cache of the process
    manager         \* the KerberosContextManager and what it did last

vars == <<krb_instance, tickets, calls, client, built, ccache, manager>>

Pending == [kind |-> "pending", value |-> <<>>, msg |-> NoMsg]
Returned(v) == [kind |-> "returned", value |-> v, msg |-> NoMsg]
Raised(e, m) == [kind |-> "raised", value |-> <<e>>, msg |-> m]

\* the krb_instance is not a KerberosContextManager
NoManager ==
    [used |-> FALSE, using_keytab |-> TRUE, refresh |-> NoRefresh, acquire |-> NoAcquire]

NotBuilt == [path |-> "", operation |-> "", kwargs |-> <<>>, uri |-> <<>>]

IdleCall ==
    [op |-> "none", pc |-> "idle", file_data |-> Absent, kwargs |-> <<>>,
     headers |-> [Authorization |-> Absent, ContentType |-> Absent],
     acqs |-> <<>>, fetches |-> 0, sent |-> <<>>, resps |-> <<>>, log |-> <<>>,
     result |-> Pending]

Init ==
    /\ krb_instance \in BOOLEAN
    /\ tickets = 0
    /\ calls = [c \in CallIds |-> IdleCall]
    /\ client = NewClient(NoUser)
    /\ built = NotBuilt
    /\ ccache = NoTgt
    /\ manager = NoManager

\* the state of the call: its operation, where it is (idle, phase1, phase2,
\* fetch, done), its file_data and headers, the acquisitions it asked for,
\* the fetches it called, the requests sent for it (the transport's included),
\* the outcomes of its fetches, its steps in order, and its result
TypeOK ==
    /\ krb_instance \in BOOLEAN
    /\ tickets \in Nat
    /\ client \in {NewClient(u) : u \in UserNames \cup {NoUser}}
    /\ ccache \in Ccaches
    /\ manager.used \in BOOLEAN /\ manager.using_keytab \in BOOLEAN
    /\ manager.refresh.kinit \in KinitOutcomes \cup {"not_called", "not_run"}
    /\ \A c \in DOMAIN calls :
          /\ calls[c].op \in Ops \cup {"none"}
          /\ calls[c].pc \in {"idle", "phase1", "phase2", "fetch", "done"}
          /\ calls[c].fetches \in 0 .. 2
          /\ calls[c].result.kind \in {"pending", "returned", "raised"}


Last(s) == s[Len(s)]

\* ErrorKind without its METHOD_NOT_ALLOWED branch
ErrorKindNoMethodNotAllowed(resp_code) ==
    IF resp_code = BAD_REQUEST THEN "BadRequest"
    ELSE IF resp_code = UNAUTHORIZED THEN "Unauthorized"
    ELSE IF resp_code = NOT_FOUND THEN "FileNotFound"
    ELSE "PyWebHdfsException"

(***************************************************************************)
(* _raise_pywebhdfs_exception(resp_code, message): the error raised for a  *)
(* status, with the response body as its message.                          *)
(***************************************************************************)
ErrorKind(resp_code) ==
    IF resp_code = BAD_REQUEST THEN "BadRequest"
    ELSE IF resp_code = UNAUTHORIZED THEN "Unauthorized"
    ELSE IF resp_code = NOT_FOUND THEN "FileNotFound"
    ELSE IF resp_code = METHOD_NOT_ALLOWED THEN "MethodNotAllowed"
    ELSE "PyWebHdfsException"

\* raise_pywebhdfs_exception dropping the message
raise_without_message(resp_code, message) ==
    [kind |-> "raised", value |-> <<ErrorKind(resp_code)>>, msg |-> NoMsg]

raise_pywebhdfs_exception(resp_code, message) ==
    Raised(ErrorKind(resp_code), message)

\* an exception of the fetch that the operation does not catch
Propagated(o) ==
    IF o.kind = "exception"
    THEN Raised("TransportFailure", NoMsg)
    ELSE Raised("HTTPError", <<"HTTP", o.code>>)

(***************************************************************************)
(* The steps of the operations.                                            *)
(***************************************************************************)
NewHeaders == [Authorization |-> Absent, ContentType |-> Absent]

\* FirstHeaders going on without a ticket when the acquisition fails
FirstHeadersFallback(krb, acq) ==
    [raised |-> FALSE,
     headers |-> [Authorization |-> IF krb THEN acq.value ELSE Absent,
                  ContentType |-> Absent]]

\* headers = dict(); if self.krb_instance: headers['Authorization'] = ...
FirstHeaders(krb, acq) ==
    IF krb
    THEN [raised |-> acq.raised,
          headers |-> [NewHeaders EXCEPT !.Authorization = acq.value]]
    ELSE [raised |-> FALSE, headers |-> NewHeaders]

\* the request the operation builds first
FirstRequest(op, kwargs, headers) ==
    [fetch |-> 1, method |-> Method(op),
     uri |-> create_uri(client, Path, Operation(op), kwargs),
     follow_redirects |-> FollowRedirects(op),
     body |-> FirstBody(op), headers |-> headers]

\* AfterPhase1 without the check of the status
AfterPhase1NoStatusCheck(o) ==
    IF o.kind = "exception" THEN "propagate"
    ELSE IF o.kind = "http_error_no_response" THEN "attribute_error"
    ELSE IF o.location = NoLocation THEN "key_error"
    ELSE "upload"

\* AfterPhase1 going on to the upload after an HTTPError without a response
AfterPhase1FallThrough(o) ==
    IF o.kind = "exception" THEN "propagate"
    ELSE IF o.kind = "http_error_no_response" THEN "upload"
    ELSE IF ~(o.code = TEMPORARY_REDIRECT) THEN "classify"
    ELSE IF o.location = NoLocation THEN "key_error"
    ELSE "upload"

\* AfterPhase1 taking a 307 without a location header as a redirect to nowhere
AfterPhase1NoLocationCheck(o) ==
    IF o.kind = "exception" THEN "propagate"
    ELSE IF o.kind = "http_error_no_response" THEN "attribute_error"
    ELSE IF ~(o.code = TEMPORARY_REDIRECT) THEN "classify"
    ELSE "upload"

\* try: init_response = yield fetch(request)
\* except HTTPError as e: init_response = e.response
\* and what the operation does with init_response
AfterPhase1(o) ==
    IF o.kind = "exception" THEN "propagate"
    ELSE IF o.kind = "http_error_no_response" THEN "attribute_error"
    ELSE IF ~(o.code = TEMPORARY_REDIRECT) THEN "classify"
    ELSE IF o.location = NoLocation THEN "key_error"
    ELSE "upload"

\* UploadHeaders keeping the Authorization of the first request
UploadHeadersNoReacquire(krb, headers, acq) ==
    [raised |-> FALSE,
     headers |-> [headers EXCEPT !.ContentType = <<"application/octet-stream">>]]

\* headers['Content-Type'] = 'application/octet-stream'
\* if self.krb_instance: headers['Authorization'] = ...
UploadHeaders(krb, headers, acq) ==
    LET h == [headers EXCEPT !.ContentType = <<"application/octet-stream">>]
    IN  IF krb
        THEN [raised |-> acq.raised,
              headers |-> [h EXCEPT !.Authorization = acq.value]]
        ELSE [raised |-> FALSE, headers |-> h]

\* UploadLocation with the location kept from the first redirect any call got
UploadLocationCached(o) ==
    LET got == {d \in DOMAIN calls :
                   calls[d].resps # <<>> /\ IsFollowed(calls[d].resps[1])}
    IN  IF got # {}
        THEN calls[CHOOSE d \in got : \A e \in got : d <= e].resps[1].location
        ELSE o.location

\* uri = init_response.headers['location']
UploadLocation(o) == o.location

\* UploadRequest with create_file's method for append_file too
UploadRequestAlwaysPut(op, location, file_data, headers) ==
    [fetch |-> 2, method |-> "PUT", uri |-> location,
     follow_redirects |-> TRUE, body |-> file_data, headers |-> headers]

\* HTTPRequest(uri, method=, body=file_data, headers=headers): follow_redirects
\* is not given, and is True by default
UploadRequest(op, location, file_data, headers) ==
    [fetch |-> 2, method |-> Method(op), uri |-> location,
     follow_redirects |-> TRUE, body |-> file_data, headers |-> headers]

\* Phase2Expected with append_file's status for create_file too
Phase2ExpectedAlwaysOK(op) == OK

\* the status the second response of the operation must have
Phase2Expected(op) == IF op = "create_file" THEN CREATED ELSE OK

\* response = yield fetch(request); if not response.code == ...: raise
UploadResult(op, o) ==
    IF o.kind # "returned" THEN Propagated(o)
    ELSE IF ~(o.code = Phase2Expected(op))
         THEN raise_pywebhdfs_exception(o.code, o.body)
         ELSE Returned(<<"True">>)

\* the value a single-phase operation returns
ReturnValue(op, body) ==
    IF op = "read_file" THEN <<"bytes", body>>
    ELSE IF op \in JsonOps THEN <<"json", body>>
    ELSE <<"True">>

\* response = yield fetch(request); if not response.code == httplib.OK: raise
\* set_owner reads response.status_code, which a tornado response has not
SingleResult(op, o) ==
    IF o.kind # "returned" THEN Propagated(o)
    ELSE IF op = "set_owner" THEN Raised("AttributeError", NoMsg)
    ELSE IF ~(o.code = OK)
         THEN raise_pywebhdfs_exception(o.code, o.body)
         ELSE Returned(ReturnValue(op, o.body))

\* what the provider may be asked for next
NextAcquisitions ==
    IF ~krb_instance THEN {[raised |-> FALSE, value |-> Absent, error |-> "none"]}
    ELSE IF manager.used THEN ManagerAcquisitions(tickets + 1)
    ELSE Acquisitions(tickets + 1)

\* the host a location names
LocationHost(location) ==
    IF location = <<"http://datanode1:50075/webhdfs/v1/f">> THEN "datanode1"
    ELSE IF location = <<"http://datanode2:50075/webhdfs/v1/f">> THEN "datanode2"
    ELSE IF location = <<"http://datanode3:50075/webhdfs/v1/f">> THEN "datanode3"
    ELSE "none"

\* acquire_kerberos_ticket(self.krb_primary, self.host) before the first
\* request of an operation
FirstTicketArguments(self) == <<self.krb_primary, self.host>>

\* UploadTicketArguments asking for a ticket for the host of the location
UploadTicketArgumentsForLocation(self, location) ==
    <<self.krb_primary, LocationHost(location)>>

\* acquire_kerberos_ticket(self.krb_primary, self.host) before the second
\* request, when the location of the redirect is known
UploadTicketArguments(self, location) == <<self.krb_primary, self.host>>

\* the acquisition as the call keeps it: what was asked for and what came
Acquired(acq, args) ==
    IF krb_instance
    THEN <<[raised |-> acq.raised, value |-> acq.value, error |-> acq.error,
            args |-> args]>>
    ELSE <<>>

AcquireLog(acq) ==
    IF ~krb_instance THEN <<>>
    ELSE IF acq.raised THEN <<"acquire_failed">> ELSE <<"acquired">>

\* Finish that waits for the first fetch again when it has failed
FinishOrFetchAgain(call, log, result) ==
    IF result.kind = "raised" /\ call.fetches = 1 /\ Len(call.resps) = 1
          /\ Len(call.acqs) <= 1
    THEN [call EXCEPT !.resps = <<>>]
    ELSE [call EXCEPT !.pc = "done", !.log = @ \o log, !.result = result]

Finish(call, log, result) ==
    [call EXCEPT !.pc = "done", !.log = @ \o log, !.result = result]

\* the operation from its start to its first yield
Invoke(c, op) ==
    /\ calls[c].pc = "idle"
    /\ \A d \in DOMAIN calls : d < c => calls[d].pc # "idle"
    /\ \E acq \in NextAcquisitions :
       \E data \in (IF op \in TwoPhaseOps THEN FileData ELSE {Absent}) :
       \E kwargs \in OperationKwargs(op) :
          LET h == FirstHeaders(krb_instance, acq)
              call == [IdleCall EXCEPT !.op = op, !.file_data = data,
                                       !.kwargs = kwargs,
                                       !.acqs = Acquired(acq,
                                                    FirstTicketArguments(client))]
          IN  IF h.raised
              THEN /\ calls' = [calls EXCEPT ![c] =
                          Finish(call, AcquireLog(acq),
                                 Raised(acq.error, NoMsg))]
                   /\ UNCHANGED tickets
              ELSE /\ calls' = [calls EXCEPT ![c] =
                          [call EXCEPT
                             !.pc = IF op \in TwoPhaseOps THEN "phase1" ELSE "fetch",
                             !.headers = h.headers,
                             !.fetches = 1,
                             !.sent = <<FirstRequest(op, kwargs, h.headers)>>,
                             !.log = AcquireLog(acq) \o <<"request">>]]
                   /\ tickets' = IF krb_instance THEN tickets + 1 ELSE tickets
    /\ UNCHANGED <<krb_instance, client, built, ccache, manager>>

\* create_file and append_file, resumed with the outcome of the first fetch,
\* to their second yield
Redirect(c, op) ==
    /\ calls[c].op = op
    /\ calls[c].pc = "phase1"
    /\ \E o \in Outcomes(c, 1) : \E acq \in NextAcquisitions :
          LET call == [calls[c] EXCEPT !.resps = Append(@, o)]
              todo == AfterPhase1(o)
              h == UploadHeaders(krb_instance, call.headers, acq)
              seen == <<IF o.kind \in {"returned", "http_error"}
                        THEN IF o.code = TEMPORARY_REDIRECT
                             THEN "response_307" ELSE "response_other"
                        ELSE "no_response">>
          IN  IF todo = "propagate"
              THEN /\ calls' = [calls EXCEPT ![c] = Finish(call, seen, Propagated(o))]
                   /\ UNCHANGED tickets
              ELSE IF todo = "attribute_error"
              THEN /\ calls' = [calls EXCEPT ![c] =
                          Finish(call, seen, Raised("AttributeError", NoMsg))]
                   /\ UNCHANGED tickets
              ELSE IF todo = "classify"
              THEN /\ calls' = [calls EXCEPT ![c] =
                          Finish(call, seen, raise_pywebhdfs_exception(o.code, o.body))]
                   /\ UNCHANGED tickets
              ELSE IF todo = "key_error"
              THEN /\ calls' = [calls EXCEPT ![c] =
                          Finish(call, seen, Raised("KeyError", NoMsg))]
                   /\ UNCHANGED tickets
              ELSE IF h.raised
              THEN /\ calls' = [calls EXCEPT ![c] =
                          Finish([call EXCEPT !.acqs = @ \o Acquired(acq,
                                      UploadTicketArguments(client, o.location))],
                                 seen \o AcquireLog(acq),
                                 Raised(acq.error, NoMsg))]
                   /\ UNCHANGED tickets
              ELSE /\ calls' = [calls EXCEPT ![c] =
                          [call EXCEPT
                             !.pc = "phase2",
                             !.acqs = @ \o Acquired(acq,
                                         UploadTicketArguments(client, o.location)),
                             !.headers = h.headers,
                             !.fetches = @ + 1,
                             !.sent = Append(@, UploadRequest(op, UploadLocation(o),
                                                 call.file_data, h.headers)),
                             !.log = @ \o seen \o AcquireLog(acq) \o <<"request">>]]
                   /\ tickets' = IF krb_instance THEN tickets + 1 ELSE tickets
    /\ UNCHANGED <<krb_instance, client, built, ccache, manager>>

\* the outcomes of a fetch that follows redirects (the transport follows a 307
\* with a location by itself, see FollowRedirect)
FinalOutcomes(c, n) == {o \in Outcomes(c, n) : ~IsFollowed(o)}

\* create_file and append_file, resumed with the outcome of the second fetch
Upload(c, op) ==
    /\ calls[c].op = op
    /\ calls[c].pc = "phase2"
    /\ \E o \in FinalOutcomes(c, 2) :
          calls' = [calls EXCEPT ![c] =
              Finish([calls[c] EXCEPT !.resps = Append(@, o)],
                     <<"response">>, UploadResult(op, o))]
    /\ UNCHANGED <<krb_instance, tickets, client, built, ccache, manager>>

\* a single-phase operation, resumed with the outcome of its fetch
Respond(c, op) ==
    /\ calls[c].op = op
    /\ calls[c].pc = "fetch"
    /\ \E o \in FinalOutcomes(c, 1) :
          calls' = [calls EXCEPT ![c] =
              Finish([calls[c] EXCEPT !.resps = Append(@, o)],
                     <<"response">>, SingleResult(op, o))]
    /\ UNCHANGED <<krb_instance, tickets, client, built, ccache, manager>>

\* the transport, following a redirect of a request with follow_redirects set:
\* it sends the request again, headers included, to the location
FollowRedirect(c) ==
    /\ calls[c].pc \in {"fetch", "phase2"}
    /\ Last(calls[c].sent).follow_redirects
    /\ Cardinality({i \in DOMAIN calls[c].sent :
                      calls[c].sent[i].fetch = Last(calls[c].sent).fetch}) <= MaxHops
    /\ \E l \in HopLocations :
          calls' = [calls EXCEPT ![c].sent = Append(@, [Last(@) EXCEPT !.uri = l])]
    /\ UNCHANGED <<krb_instance, tickets, client, built, ccache, manager>>

create_file(c) ==
    Invoke(c, "create_file") \/ Redirect(c, "create_file") \/ Upload(c, "create_file")
append_file(c) ==
    Invoke(c, "append_file") \/ Redirect(c, "append_file") \/ Upload(c, "append_file")
read_file(c) == Invoke(c, "read_file") \/ Respond(c, "read_file")
make_dir(c) == Invoke(c, "make_dir") \/ Respond(c, "make_dir")
rename_file_dir(c) == Invoke(c, "rename_file_dir") \/ Respond(c, "rename_file_dir")
delete_file_dir(c) == Invoke(c, "delete_file_dir") \/ Respond(c, "delete_file_dir")
get_file_dir_status(c) ==
    Invoke(c, "get_file_dir_status") \/ Respond(c, "get_file_dir_status")
list_dir(c) == Invoke(c, "list_dir") \/ Respond(c, "list_dir")
set_owner(c) == Invoke(c, "set_owner") \/ Respond(c, "set_owner")
get_acl_status(c) == Invoke(c, "get_acl_status") \/ Respond(c, "get_acl_status")

Next ==
    \E c \in CallIds :
        \/ create_file(c)
        \/ append_file(c)
        \/ read_file(c)
        \/ make_dir(c)
        \/ rename_file_dir(c)
        \/ delete_file_dir(c)
        \/ get_file_dir_status(c)
        \/ list_dir(c)
        \/ set_owner(c)
        \/ get_acl_status(c)
        \/ FollowRedirect(c)

Spec == Init /\ [][Next]_vars

\* a call that waits at a yield is resumed when its fetch completes
Resume(c) ==
    \E op \in Ops : Redirect(c, op) \/ Upload(c, op) \/ Respond(c, op)

\* one call followed to its end: the calls share no state (see
\* SpecConcurrent), so what one call does depends on no other
LiveIds == {1}

NextLive ==
    \E c \in LiveIds :
        \/ create_file(c)
        \/ append_file(c)
        \/ read_file(c)
        \/ make_dir(c)
        \/ rename_file_dir(c)
        \/ delete_file_dir(c)
        \/ get_file_dir_status(c)
        \/ list_dir(c)
        \/ set_owner(c)
        \/ get_acl_status(c)
        \/ FollowRedirect(c)

\* the operations when every fetch completes and the IOLoop resumes the
\* coroutine that waits for it
SpecLive == Init /\ [][NextLive]_vars /\ \A c \in LiveIds : WF_vars(Resume(c))

(***************************************************************************)
(* Several create_file and append_file calls in flight at once on one      *)
(* client with a krb_instance: the coroutines interleave at their yields.  *)
(* The namenode answers 307 with a location or 404, the datanode answers   *)
(* 200 or 201, and the provider gives a ticket whenever it is asked.       *)
(***************************************************************************)
ConcurrentIds == 1 .. MaxConcurrent

ConcurrentOutcome(n, o) ==
    /\ o.kind \in {"returned", "http_error"}
    /\ IF n = 1
       THEN IsFollowed(o) \/ o.code = NOT_FOUND
       ELSE o.code \in {OK, CREATED} /\ o.location = NoLocation

ConcurrentEnv ==
    \A c \in DOMAIN calls :
        /\ \A i \in DOMAIN calls[c].resps : ConcurrentOutcome(i, calls[c].resps[i])
        /\ \A i \in DOMAIN calls[c].acqs : ~calls[c].acqs[i].raised
        /\ Len(calls[c].sent) <= 2

InitConcurrent ==
    /\ krb_instance = TRUE
    /\ tickets = 0
    /\ calls = [c \in ConcurrentIds |-> IdleCall]
    /\ client = NewClient(NoUser)
    /\ built = NotBuilt
    /\ ccache = NoTgt
    /\ manager = NoManager

ConcurrentCreate(c) == create_file(c) /\ ConcurrentEnv'
ConcurrentAppend(c) == append_file(c) /\ ConcurrentEnv'

NextConcurrent ==
    \E c \in ConcurrentIds : ConcurrentCreate(c) \/ ConcurrentAppend(c)

SpecConcurrent == InitConcurrent /\ [][NextConcurrent]_vars

(***************************************************************************)
(* A client made with a KerberosContextManager as krb_instance, as test.py *)
(* makes it, and the manager called by itself; minutes pass.               *)
(***************************************************************************)
InitKerberos ==
    /\ krb_instance = TRUE
    /\ tickets = 0
    /\ calls = [c \in CallIds |-> IdleCall]
    /\ client = NewClient(NoUser)
    /\ built = NotBuilt
    /\ ccache \in Ccaches
    /\ manager \in {[NoManager EXCEPT !.used = TRUE, !.using_keytab = k] : k \in BOOLEAN}

refresh_kerberos_ccache ==
    /\ manager.used
    /\ \E kinit \in KinitOutcomes :
          LET r == refresh(ccache, kinit)
          IN  /\ ccache' = r.ccache
              /\ manager' = [manager EXCEPT !.refresh = r.report]
    /\ UNCHANGED <<krb_instance, tickets, calls, client, built>>

acquire_kerberos_ticket ==
    /\ manager.used
    /\ tickets < MaxAcquires
    /\ \E kinit \in KinitOutcomes :
          LET r == refresh(ccache, kinit)
          IN  \E gss \in GssOutcomes(r.ccache) :
                /\ ccache' = r.ccache
                /\ manager' =
                      [manager EXCEPT
                         !.refresh = r.report,
                         !.acquire =
                            [steps |-> <<"refresh_kerberos_ccache", "authGSSClientInit",
                                         "authGSSClientStep">>
                                       \o IF gss = "ticket"
                                          THEN <<"authGSSClientResponse",
                                                 "authGSSClientClean">>
                                          ELSE <<>>,
                             service |-> <<"HTTP@", "server">>,
                             result |-> IF gss = "ticket" THEN Ticket(tickets + 1)
                                        ELSE <<"GSSError">>]]
                /\ tickets' = IF gss = "ticket" THEN tickets + 1 ELSE tickets
    /\ UNCHANGED <<krb_instance, calls, client, built>>

\* a minute passes
Elapse ==
    /\ ccache.present /\ ccache.remaining > 0
    /\ ccache' = Tgt(ccache.remaining - 1)
    /\ UNCHANGED <<krb_instance, tickets, calls, client, built, manager>>

\* every operation raises before its first yield (see ManagerAcquisitions), so
\* of the steps of the operations only the first can be taken
NextKerberos ==
    \/ refresh_kerberos_ccache
    \/ acquire_kerberos_ticket
    \/ Elapse
    \/ \E c \in CallIds : \E op \in Ops : Invoke(c, op)

SpecKerberos == InitKerberos /\ [][NextKerberos]_vars

(***************************************************************************)
(* _create_uri applied alone, to every operation, with a client with or    *)
(* without a user name and with the optional arguments of a caller.        *)
(***************************************************************************)
Paths == {"user/hdfs/f", "user/hdfs/example_dir"}
OptionalKeys == {"overwrite", "permission", "destination"}
OptionalValues == {Bool(TRUE), Text(<<"7", "5", "5">>), Text(<<"/", "D", "i", "r">>)}

\* the keyword arguments, in the order of the iteration: no key twice
KwargsUpTo(n) ==
    {kw \in UNION {[1 .. k -> {Arg(key, v) : key \in OptionalKeys,
                                              v \in OptionalValues}] : k \in 0 .. n} :
        \A i, j \in DOMAIN kw : i # j => kw[i].key # kw[j].key}

InitUri ==
    /\ krb_instance = FALSE
    /\ tickets = 0
    /\ calls = [c \in CallIds |-> IdleCall]
    /\ client \in {NewClient(u) : u \in UserNames \cup {NoUser}}
    /\ built = NotBuilt
    /\ ccache = NoTgt
    /\ manager = NoManager

BuildUri ==
    /\ built = NotBuilt
    /\ \E path \in Paths : \E op \in Ops : \E kwargs \in KwargsUpTo(MaxKwargs) :
          built' = [path |-> path, operation |-> Operation(op), kwargs |-> kwargs,
                    uri |-> create_uri(client, path, Operation(op), kwargs)]
    /\ UNCHANGED <<krb_instance, tickets, calls, client, ccache, manager>>

SpecUri == InitUri /\ [][BuildUri]_vars

(***************************************************************************)
(* The claims.                                                             *)
(***************************************************************************)
IsResponse(o) == o.kind \in {"returned", "http_error"}
HasStatus(o, s) == IsResponse(o) /\ o.code = s
TwoPhase(c) == calls[c].op \in TwoPhaseOps
Done(c) == calls[c].pc = "done"
Succeeded(c) == calls[c].result.kind = "returned"
\* the requests sent for the n-th fetch of call c
RequestsOf(c, n) == {i \in DOMAIN calls[c].sent : calls[c].sent[i].fetch = n}
\* the requests sent with the Authorization value a
CarriedBy(a) ==
    UNION {{<<c, i>> : i \in {j \in DOMAIN calls[c].sent :
                                 calls[c].sent[j].headers.Authorization = a}} :
           c \in CallIds}

\* the status table of the specification
StatusTable(s) ==
    CASE s = 400 -> "BadRequest"
      [] s = 401 -> "Unauthorized"
      [] s = 404 -> "FileNotFound"
      [] s = 405 -> "MethodNotAllowed"
      [] OTHER -> "PyWebHdfsException"

\* C1: a create_file or append_file call that succeeds has called the
\* transport exactly twice, first for the namenode URI and then for the
\* location of the redirect, and with a krb_instance it has asked for exactly
\* two tickets, one before each request; the second request carries the ticket
\* of the second acquisition, which is not the one the first request carried.
C1_TwoFetchesTwoTickets ==
    \A c \in CallIds :
        (TwoPhase(c) /\ Succeeded(c)) =>
            /\ calls[c].fetches = 2
            /\ Len(calls[c].resps) = 2
            /\ RequestsOf(c, 1) = {1}
            /\ calls[c].sent[1].uri[1] = base_uri
            /\ 2 \in RequestsOf(c, 2)
            /\ calls[c].sent[2].uri = calls[c].resps[1].location
            /\ krb_instance =>
                /\ Len(calls[c].acqs) = 2
                /\ calls[c].log = <<"acquired", "request", "response_307",
                                    "acquired", "request", "response">>
                /\ calls[c].sent[1].headers.Authorization = calls[c].acqs[1].value
                /\ \A i \in RequestsOf(c, 2) :
                      /\ calls[c].sent[i].headers.Authorization = calls[c].acqs[2].value
                      /\ calls[c].sent[i].headers.Authorization
                            # calls[c].sent[1].headers.Authorization
                /\ calls[c].acqs[1].value # calls[c].acqs[2].value

C1_Witness ==
    \E c \in CallIds : krb_instance /\ TwoPhase(c) /\ Succeeded(c)

\* C2: create_file returns True exactly when its first response has status 307
\* and its second has status 201, append_file exactly when its first response
\* has status 307 and its second has status 200; a call that ends otherwise
\* raises and returns nothing.
C2_Success(c) ==
    /\ Len(calls[c].resps) = 2
    /\ HasStatus(calls[c].resps[1], 307)
    /\ HasStatus(calls[c].resps[2], IF calls[c].op = "create_file" THEN 201 ELSE 200)

C2_TrueIffRedirectThenSuccessStatus ==
    \A c \in CallIds :
        (TwoPhase(c) /\ Done(c)) =>
            /\ (calls[c].result = Returned(<<"True">>)) <=> C2_Success(c)
            /\ ~C2_Success(c) => calls[c].result.kind = "raised"

C2_Witness ==
    \E c \in CallIds :
        /\ ~krb_instance
        /\ calls[c].op = "create_file"
        /\ calls[c].result = Returned(<<"True">>)

\* C3 as stated: a first response of create_file with a status other than 307
\* fails the call with ProtocolViolation, and no second request is issued.
C3_Original ==
    \A c \in CallIds :
        (/\ calls[c].op = "create_file"
         /\ Len(calls[c].resps) >= 1
         /\ IsResponse(calls[c].resps[1])
         /\ calls[c].resps[1].code # 307) =>
            /\ calls[c].result.kind = "raised"
            /\ calls[c].result.value = <<"ProtocolViolation">>
            /\ calls[c].fetches = 1

\* C3, amended: a first response of create_file with a status other than 307
\* fails the call with the error the status table gives that status
\* (BadRequest, Unauthorized, FileNotFound, MethodNotAllowed, and
\* PyWebHdfsException for every other status), and no second request is issued.
C3_Phase1FailureIsClassified ==
    \A c \in CallIds :
        (/\ calls[c].op = "create_file"
         /\ Len(calls[c].resps) >= 1
         /\ IsResponse(calls[c].resps[1])
         /\ calls[c].resps[1].code # 307) =>
            /\ Done(c)
            /\ calls[c].result.kind = "raised"
            /\ calls[c].result.value = <<StatusTable(calls[c].resps[1].code)>>
            /\ calls[c].fetches = 1
            /\ RequestsOf(c, 2) = {}

C3_Witness ==
    \E c \in CallIds :
        /\ calls[c].op = "create_file"
        /\ Len(calls[c].resps) = 1
        /\ HasStatus(calls[c].resps[1], 405)
        /\ Done(c)

\* C4: a first response of append_file or create_file with a status s other
\* than 307 fails the call with the error the status table gives s, whose
\* message is the body of that response, and no second request is attempted.
C4_Phase1ErrorCarriesBody ==
    \A c \in CallIds :
        (/\ TwoPhase(c)
         /\ Len(calls[c].resps) >= 1
         /\ IsResponse(calls[c].resps[1])
         /\ calls[c].resps[1].code # 307) =>
            /\ calls[c].result =
                  Raised(StatusTable(calls[c].resps[1].code), calls[c].resps[1].body)
            /\ calls[c].result.msg = BodyOf(c, 1)
            /\ Len(calls[c].resps) = 1
            /\ Len(calls[c].sent) = 1

C4_Witness ==
    \E c \in CallIds :
        /\ calls[c].op = "append_file"
        /\ Len(calls[c].resps) = 1
        /\ HasStatus(calls[c].resps[1], 404)
        /\ calls[c].result = Raised("FileNotFound", BodyOf(c, 1))

\* C5: a second response of create_file with a status other than 201, or of
\* append_file with a status other than 200, fails the call with the error the
\* status table gives that status, whose message is the body of the second
\* response.
C5_Phase2FailureIsClassified ==
    \A c \in CallIds :
        (/\ TwoPhase(c)
         /\ Len(calls[c].resps) = 2
         /\ IsResponse(calls[c].resps[2])
         /\ calls[c].resps[2].code #
               (IF calls[c].op = "create_file" THEN 201 ELSE 200)) =>
            calls[c].result =
                Raised(StatusTable(calls[c].resps[2].code), calls[c].resps[2].body)

\* C6: a fetch that raises an exception carrying a response ends the same way
\* as a fetch that returns that response: the same value or error, and the
\* same further requests.
AsReturned(o) == [o EXCEPT !.kind = "returned"]

C6_RaisedResponseAsReturned ==
    \A c \in CallIds :
        /\ (TwoPhase(c) /\ Len(calls[c].resps) >= 1
                /\ calls[c].resps[1].kind = "http_error") =>
              AfterPhase1(calls[c].resps[1]) = AfterPhase1(AsReturned(calls[c].resps[1]))
        /\ (TwoPhase(c) /\ Len(calls[c].resps) = 2
                /\ calls[c].resps[2].kind = "http_error") =>
              calls[c].result = UploadResult(calls[c].op, AsReturned(calls[c].resps[2]))
        /\ (~TwoPhase(c) /\ Len(calls[c].resps) = 1
                /\ calls[c].resps[1].kind = "http_error") =>
              calls[c].result = SingleResult(calls[c].op, AsReturned(calls[c].resps[1]))

\* C7: with a krb_instance, every request that is sent, the requests the
\* transport sends to follow a redirect included, carries an Authorization
\* value, and no value is carried by two requests.
C7_NoTicketOnTwoRequests ==
    krb_instance =>
        \A c \in CallIds : \A i \in DOMAIN calls[c].sent :
            /\ calls[c].sent[i].headers.Authorization # Absent
            /\ CarriedBy(calls[c].sent[i].headers.Authorization) = {<<c, i>>}

\* C8: the steps of a create_file or append_file call are in order: each
\* request directly follows the acquisition of its ticket (with a
\* krb_instance), the second acquisition and the second request come only
\* after a first response of status 307, and after a first response of another
\* status, or none, nothing more is acquired or requested.
C8_Before(c, i) == IF i = 1 THEN "start" ELSE calls[c].log[i - 1]

C8_StepsInOrder ==
    \A c \in CallIds :
        TwoPhase(c) =>
            \A i \in DOMAIN calls[c].log :
                LET e == calls[c].log[i] IN
                /\ (e = "request" /\ krb_instance) => C8_Before(c, i) = "acquired"
                /\ (e = "request" /\ ~krb_instance) =>
                       C8_Before(c, i) \in {"start", "response_307"}
                /\ (e \in {"acquired", "acquire_failed"}) =>
                       C8_Before(c, i) \in {"start", "response_307"}
                /\ (e \in {"response_other", "no_response", "acquire_failed",
                           "response"}) => i = Len(calls[c].log)
                /\ (e \in {"response_307", "response_other", "no_response"}) =>
                       C8_Before(c, i) = "request"
                /\ (e = "response_307" /\ i > 1) =>
                       \A j \in 1 .. i - 1 : calls[c].log[j] # "response_307"

C8_Witness ==
    \E c \in CallIds :
        /\ krb_instance
        /\ TwoPhase(c)
        /\ calls[c].log = <<"acquired", "request", "response_307",
                            "acquired", "request">>
        /\ calls[c].pc = "phase2"

\* C9: with a krb_instance, a ticket acquisition that fails ends the call at
\* once with that failure: the request the ticket was for is not issued, nor is
\* any later one, and no request is ever sent without an Authorization header.
C9_AcquisitionFailureAborts ==
    krb_instance =>
        \A c \in CallIds :
            /\ \A k \in DOMAIN calls[c].acqs :
                  calls[c].acqs[k].raised =>
                      /\ Done(c)
                      /\ calls[c].result = Raised("TicketAcquisitionFailure", NoMsg)
                      /\ k = Len(calls[c].acqs)
                      /\ calls[c].fetches = k - 1
                      /\ RequestsOf(c, k) = {}
                      /\ Len(calls[c].resps) = k - 1
            /\ \A i \in DOMAIN calls[c].sent :
                  calls[c].sent[i].headers.Authorization # Absent
            /\ calls[c].fetches <= Len(calls[c].acqs)

C9_Witness ==
    \E c \in CallIds :
        /\ krb_instance
        /\ TwoPhase(c)
        /\ Len(calls[c].acqs) = 2
        /\ calls[c].acqs[2].raised
        /\ Done(c)

\* C10: no operation retries: create_file and append_file call the transport
\* at most twice, once for each phase, every other operation at most once, and
\* after a request that failed (an outcome other than the 307 that the first
\* phase expects) the call issues no request.
C10_NoRetry ==
    \A c \in CallIds :
        /\ calls[c].fetches <= (IF TwoPhase(c) THEN 2 ELSE 1)
        /\ Len(calls[c].resps) <= calls[c].fetches
        /\ \A n \in 1 .. calls[c].fetches : RequestsOf(c, n) # {}
        /\ \A i \in DOMAIN calls[c].resps :
              (~(TwoPhase(c) /\ i = 1 /\ HasStatus(calls[c].resps[1], 307))) =>
                  /\ Done(c)
                  /\ calls[c].fetches = i
                  /\ \A j \in DOMAIN calls[c].sent : calls[c].sent[j].fetch <= i
        /\ \A j \in DOMAIN calls[c].sent :
              calls[c].sent[j].fetch > 1 => HasStatus(calls[c].resps[1], 307)

C10_Witness ==
    \E c \in CallIds :
        /\ TwoPhase(c)
        /\ Len(calls[c].resps) = 1
        /\ calls[c].resps[1].kind = "http_error_no_response"
        /\ Done(c)
        /\ calls[c].fetches = 1

\* the places of uri where the pieces p stand
Occurrences(uri, p) ==
    {i \in 1 .. Len(uri) - Len(p) + 1 : SubSeq(uri, i, i + Len(p) - 1) = p}

\* C11: the first request of create_file and append_file goes to the namenode
\* URI built for op=CREATE and op=APPEND, with method PUT and POST, an empty
\* body, no following of redirects and no Content-Type; the second request
\* has the same method, goes to exactly the location of the first response,
\* and has the file data of the caller as body and Content-Type
\* application/octet-stream; the first request never has the file data.
C11_PhaseRequests ==
    \A c \in CallIds :
        TwoPhase(c) =>
            LET call == calls[c]
                method == IF call.op = "create_file" THEN "PUT" ELSE "POST"
                operation == IF call.op = "create_file" THEN "CREATE" ELSE "APPEND"
            IN  /\ \A i \in RequestsOf(c, 1) :
                      /\ i = 1
                      /\ call.sent[i].uri = <<base_uri, Path, "?op=", operation>>
                      /\ call.sent[i].method = method
                      /\ call.sent[i].body = EmptyBody
                      /\ call.sent[i].body # call.file_data
                      /\ call.sent[i].follow_redirects = FALSE
                      /\ call.sent[i].headers.ContentType = Absent
                /\ RequestsOf(c, 2) # {} =>
                      /\ 2 \in RequestsOf(c, 2)
                      /\ call.sent[2].method = method
                      /\ call.sent[2].uri = call.resps[1].location
                      /\ call.sent[2].body = call.file_data
                      /\ call.sent[2].headers.ContentType
                            = <<"application/octet-stream">>

C11_Witness ==
    \E c \in CallIds :
        /\ calls[c].op = "append_file"
        /\ 2 \in RequestsOf(c, 2)
        /\ calls[c].sent[2].method = "POST"
        /\ calls[c].sent[2].body = calls[c].file_data

\* the status the n-th fetch of an operation expects
C13_Expected(op, n) ==
    IF op \in TwoPhaseOps /\ n = 1 THEN 307
    ELSE IF op = "create_file" THEN 201 ELSE 200

ClassifiedKinds == {<<StatusTable(s)>> : s \in Statuses}

\* C13: a response with the status its step expects is not an error: 200
\* ends every operation whose request expects 200 with success, 201 ends
\* create_file with success, and 307 lets the first phase go on; a response
\* with any other status ends the call with the error the status table gives
\* (400 BadRequest, 401 Unauthorized, 404 FileNotFound, 405 MethodNotAllowed,
\* otherwise the generic error), and that error has the body of the response
\* as its message.
C13_StatusMapping ==
    \A c \in CallIds :
        \A n \in DOMAIN calls[c].resps :
            LET o == calls[c].resps[n]
                last == n = Len(calls[c].resps) /\ Done(c)
                final == ~(TwoPhase(c) /\ n = 1)
            IN  IsResponse(o) =>
                    IF o.code = C13_Expected(calls[c].op, n)
                    THEN /\ (final /\ last) => Succeeded(c)
                         /\ (~final /\ last) => calls[c].result.value \notin ClassifiedKinds
                    ELSE last => calls[c].result = Raised(StatusTable(o.code), o.body)

\* C15: make_dir, rename_file_dir, delete_file_dir and set_owner call the
\* transport once, with method PUT, PUT, DELETE and PUT; on the status 200 the
\* call returns True, on any other status it fails with the error of the
\* status table, which has the body of the response as message.
C15_OneRequestOps ==
    \A c \in CallIds :
        (calls[c].op \in {"make_dir", "rename_file_dir", "delete_file_dir", "set_owner"}
            /\ calls[c].sent # <<>>) =>
            /\ calls[c].fetches = 1
            /\ RequestsOf(c, 1) = DOMAIN calls[c].sent
            /\ calls[c].sent[1].method
                  = (IF calls[c].op = "delete_file_dir" THEN "DELETE" ELSE "PUT")
            /\ (Done(c) /\ calls[c].resps # <<>> /\ IsResponse(Last(calls[c].resps))) =>
                  LET o == Last(calls[c].resps)
                  IN  calls[c].result =
                        IF o.code = 200 THEN Returned(<<"True">>)
                        ELSE Raised(StatusTable(o.code), o.body)

\* C18: when the first fetch of create_file or append_file raises an
\* exception that has no response, the call fails with that failure of the
\* transport, as TransportFailure, and sends no second request.
C18_TransportFailurePropagates ==
    \A c \in CallIds :
        (TwoPhase(c) /\ calls[c].resps # <<>> /\ ~IsResponse(calls[c].resps[1])) =>
            /\ Done(c)
            /\ calls[c].result.kind = "raised"
            /\ calls[c].result.value = <<"TransportFailure">>
            /\ RequestsOf(c, 2) = {}
            /\ calls[c].fetches = 1

\* C12: with calls interleaved in any way on one client, the second request
\* of each call goes to the location of that call's own first response, with
\* that call's own file data and with the ticket acquired for it in that
\* call; no ticket of one call is carried by a request of another; a call
\* sends at most one request to the location it got, and none to a location
\* only another call got; the host, base_uri, user_name and request_options
\* of the client are what the constructor set.
C12_CallsAreIsolated ==
    /\ \A c \in DOMAIN calls :
          /\ Cardinality(RequestsOf(c, 2)) <= 1
          /\ calls[c].sent # <<>> =>
                calls[c].sent[1].headers.Authorization = calls[c].acqs[1].value
          /\ RequestsOf(c, 2) # {} =>
                /\ RequestsOf(c, 2) = {2}
                /\ calls[c].sent[2].uri = calls[c].resps[1].location
                /\ calls[c].sent[2].body = calls[c].file_data
                /\ calls[c].sent[2].headers.Authorization = calls[c].acqs[2].value
                /\ calls[c].sent[2].headers.ContentType = <<"application/octet-stream">>
          /\ \A d \in DOMAIN calls \ {c} :
                \A i \in DOMAIN calls[c].sent : \A j \in DOMAIN calls[d].sent :
                    calls[c].sent[i].headers.Authorization
                        # calls[d].sent[j].headers.Authorization
    /\ client.host = "localhost"
    /\ client.base_uri = base_uri
    /\ client.user_name = NoUser
    /\ client.request_options = NewClient(NoUser).request_options

\* two calls between their two yields at once, with different locations and
\* different file data
C12_Witness ==
    \E c, d \in DOMAIN calls :
        /\ c < d
        /\ calls[c].pc = "phase2" /\ calls[d].pc = "phase2"
        /\ calls[c].resps[1].location # calls[d].resps[1].location
        /\ calls[c].file_data # calls[d].file_data
        /\ calls[c].sent[2].uri # calls[d].sent[2].uri

\* C19: on a client made with a KerberosContextManager, as test.py makes it,
\* an operation gets its ticket: acquire_kerberos_ticket accepts the call of
\* the client, and the request that is sent carries 'Negotiate <ticket>' as
\* Authorization.
C19_ManagerServesClient ==
    \A c \in CallIds :
        (manager.used /\ calls[c].op # "none") =>
            /\ calls[c].acqs # <<>>
            /\ calls[c].acqs[1].error # "TypeError"
            /\ ~calls[c].acqs[1].raised =>
                  /\ calls[c].sent # <<>>
                  /\ calls[c].sent[1].headers.Authorization[1] = "Negotiate"
                  /\ calls[c].sent[1].headers.Authorization = calls[c].acqs[1].value

\* C20: refresh_kerberos_ccache returns (False, message) whenever a refresh
\* was required and kinit did not succeed, because it ended with another exit
\* status than 0 or could not be started; it returns (True, '') only when no
\* refresh was required or kinit succeeded.
C20_RefreshReportsFailure ==
    manager.refresh # NoRefresh =>
        LET r == manager.refresh
            succeeded == ~r.required \/ r.kinit = "exit_0"
        IN  /\ r.ok <=> succeeded
            /\ r.ok => r.msg = <<"">>

\* C21: refresh_kerberos_ccache starts kinit if and only if the lookup of the
\* TGT in the default cache fails or the TGT has strictly less than 5 minutes
\* left; with exactly 5 minutes or more left it starts no subprocess and
\* returns (True, ''); acquire_kerberos_ticket makes this check on every
\* call, before the first of its GSS calls.
C21_RefreshWhenDue ==
    /\ manager.refresh # NoRefresh =>
          LET r == manager.refresh
              due == ~r.lookup.present \/ r.lookup.remaining < 5
          IN  /\ (r.kinit \in KinitOutcomes) <=> due
              /\ ~due => (r.kinit = "not_run" /\ r.ok /\ r.msg = <<"">>)
    /\ manager.acquire # NoAcquire =>
          /\ manager.refresh # NoRefresh
          /\ manager.acquire.steps[1] = "refresh_kerberos_ccache"
          /\ \A i \in DOMAIN manager.acquire.steps :
                manager.acquire.steps[i] = "refresh_kerberos_ccache" => i = 1
          /\ manager.acquire.steps[2] = "authGSSClientInit"

C21_Witness ==
    /\ manager.refresh.lookup = Tgt(5)
    /\ manager.refresh.kinit = "not_run"
    /\ manager.acquire # NoAcquire
    /\ manager.acquire.result[1] = "Negotiate"

\* C22: when the first response of create_file or append_file has the status
\* 307 and no location header, the call fails, sends no second request and
\* asks for no second ticket.
C22_NoLocationNoUpload ==
    \A c \in CallIds :
        (/\ TwoPhase(c)
         /\ calls[c].resps # <<>>
         /\ HasStatus(calls[c].resps[1], 307)
         /\ calls[c].resps[1].location = NoLocation) =>
            /\ Done(c)
            /\ calls[c].result.kind = "raised"
            /\ calls[c].fetches = 1
            /\ DOMAIN calls[c].sent = {1}
            /\ Len(calls[c].resps) = 1
            /\ Len(calls[c].acqs) = (IF krb_instance THEN 1 ELSE 0)
            /\ "acquired" \notin {calls[c].log[i] : i \in 2 .. Len(calls[c].log)}

C22_Witness ==
    \E c \in CallIds :
        /\ krb_instance
        /\ calls[c].op = "append_file"
        /\ calls[c].resps # <<>>
        /\ HasStatus(calls[c].resps[1], 307)
        /\ calls[c].resps[1].location = NoLocation
        /\ calls[c].result = Raised("KeyError", NoMsg)
        /\ tickets = 1

\* C23: with a krb_instance, create_file and append_file ask for both of
\* their tickets with the krb_primary and the host of the client; the second
\* is never asked for the host that the location of the redirect names, which
\* is another host than the namenode.
C23_TicketsForNamenode ==
    \A c \in CallIds :
        TwoPhase(c) =>
            /\ \A k \in DOMAIN calls[c].acqs :
                  calls[c].acqs[k].args = <<client.krb_primary, client.host>>
            /\ Len(calls[c].acqs) = 2 =>
                  /\ LocationHost(calls[c].resps[1].location) # client.host
                  /\ calls[c].acqs[2].args[2]
                        # LocationHost(calls[c].resps[1].location)
                  /\ calls[c].acqs[2].args = calls[c].acqs[1].args

C23_Witness ==
    \E c \in CallIds :
        /\ calls[c].op = "create_file"
        /\ Succeeded(c)
        /\ Len(calls[c].acqs) = 2
        /\ LocationHost(calls[c].resps[1].location) = "datanode2"
        /\ calls[c].acqs[2].args = <<"HTTP", "localhost">>

\* C24: every call of an operation ends, with its value returned or with an
\* error raised, when every fetch and every acquisition it waits for
\* completes; no call stays between its first and its second phase for ever.
C24_EveryCallEnds ==
    \A c \in LiveIds :
        (calls[c].pc # "idle") ~>
            (Done(c) /\ calls[c].result.kind \in {"returned", "raised"})

C24_Witness ==
    \E c \in LiveIds :
        /\ TwoPhase(c)
        /\ calls[c].fetches = 2
        /\ Done(c)
        /\ calls[c].result.kind \in {"returned", "raised"}
        /\ Len(calls[c].sent) > 2

\* the keyword parameters of the specification, for the first n arguments
RECURSIVE C14_Params(_, _)
C14_Params(kwargs, n) ==
    IF n = 0 THEN <<>>
    ELSE C14_Params(kwargs, n - 1)
            \o <<"&", kwargs[n].key, "=">> \o lower(str(kwargs[n].value))

\* C14: the URI built for a path, an operation and keyword arguments is
\* base_uri, the path, '?op=' and the operation, then '&key=value' for each
\* argument with the value converted to a string and lower-cased, then
\* '&user.name=' and the user name when the client has one; it has op= once
\* and each argument once, and is a function of these inputs.
C14_UriBuilt ==
    built # NotBuilt =>
        LET uri == built.uri
            kwargs == built.kwargs
            user == IF client.user_name # NoUser
                    THEN <<"&user.name=">> \o client.user_name ELSE <<>>
        IN  /\ uri = <<base_uri, built.path, "?op=", built.operation>>
                        \o C14_Params(kwargs, Len(kwargs)) \o user
            /\ Occurrences(uri, <<"?op=", built.operation>>) = {3}
            /\ Occurrences(uri, <<"?op=">>) = {3}
            /\ \A k \in DOMAIN kwargs :
                  Cardinality(Occurrences(uri, <<"&", kwargs[k].key, "=">>)) = 1
            /\ Cardinality(Occurrences(uri, <<"&user.name=">>))
                  = IF client.user_name # NoUser THEN 1 ELSE 0

C14_Witness ==
    /\ built # NotBuilt
    /\ Len(built.kwargs) = 2
    /\ \E k \in DOMAIN built.kwargs : str(built.kwargs[k].value) = <<"T", "r", "u", "e">>
    /\ \E k \in DOMAIN built.kwargs : str(built.kwargs[k].value) = <<"/", "D", "i", "r">>
    /\ client.user_name # NoUser

\* C16: the first request of rename_file_dir has the destination parameter
\* with exactly the destination_path of the caller as value, character for
\* character.
C16_DestinationAsGiven ==
    \A c \in CallIds :
        (calls[c].op = "rename_file_dir" /\ calls[c].sent # <<>>) =>
            LET uri == calls[c].sent[1].uri
                given == <<"&", "destination", "=">> \o str(calls[c].kwargs[1].value)
            IN  /\ calls[c].sent[1].method = "PUT"
                /\ uri[4] = "RENAME"
                /\ Occurrences(uri, given) = {Len(uri) - Len(given) + 1}

\* C17: delete_file_dir makes one request, with method DELETE and a URI that
\* has the recursive parameter exactly once, with the value 'true' when the
\* caller gave True or 'true' and 'false' when the caller gave False or
\* nothing; the call succeeds on the status 200.
C17_DeleteRecursive ==
    \A c \in CallIds :
        (calls[c].op = "delete_file_dir" /\ calls[c].sent # <<>>) =>
            LET uri == calls[c].sent[1].uri
                recursive == calls[c].kwargs[1].value
                value == IF recursive \in {Bool(TRUE), Text(<<"t", "r", "u", "e">>)}
                         THEN <<"t", "r", "u", "e">>
                         ELSE <<"f", "a", "l", "s", "e">>
            IN  /\ calls[c].fetches = 1
                /\ RequestsOf(c, 1) = DOMAIN calls[c].sent
                /\ calls[c].sent[1].method = "DELETE"
                /\ uri[4] = "DELETE"
                /\ Cardinality(Occurrences(uri, <<"recursive">>)) = 1
                /\ Occurrences(uri, <<"&", "recursive", "=">> \o value)
                      = {Len(uri) - Len(value) - 2}
                /\ (Done(c) /\ calls[c].resps # <<>>
                        /\ HasStatus(Last(calls[c].resps), 200)) => Succeeded(c)

C17_Witness ==
    \E c \in CallIds :
        /\ calls[c].op = "delete_file_dir"
        /\ calls[c].kwargs[1].value = Bool(TRUE)
        /\ Done(c)
        /\ calls[c].resps # <<>>
        /\ HasStatus(Last(calls[c].resps), 200)
        /\ Succeeded(c)

=============================================================================
